---- MODULE Spec2Model ----
(***************************************************************************)
(* Model of the Video URL Resolver (src/main.py): the POST /resolve        *)
(* handler resolve_video_url, the profile builder get_ydl_opts and the     *)
(* response models VideoData / VideoResponse.  The extraction engine       *)
(* (yt_dlp.YoutubeDL.extract_info) is an external collaborator: its        *)
(* outcome is an input drawn from bounded sets.                            *)
(***************************************************************************)
EXTENDS Integers, Sequences, FiniteSets, TLC

(* ---------------------------- bounds ---------------------------------- *)
\* number of request slots of the server
NumRequests == 2
\* longest `formats` list the engine returns
MaxFormats == 2

Requests == 1..NumRequests

(* ----------------------- Python values -------------------------------- *)
\* key not in the dict
Missing == "<missing>"
\* the Python value None (key present, or the result of dict.get on a missing key)
None == "<None>"

\* Python truthiness of an optional string: None and "" are falsy
Truthy(s) == s # None /\ s # ""

\* dict.get(key): a missing key reads as None
DictGet(v) == IF v = Missing THEN None ELSE v

\* dict.get(key, default): only a missing key takes the default
DictGetDefault(v, default) == IF v = Missing THEN default ELSE v

(* numbers: tenths of a unit, with the Python type that carries them *)
MissingDuration == [t |-> "missing", v10 |-> 0]
NoneDuration == [t |-> "none", v10 |-> 0]
IntDuration(n) == [t |-> "int", v10 |-> 10 * n]
FloatDuration(tenths) == [t |-> "float", v10 |-> tenths]
\* a duration that is a non-numeric string (malformed record)
StrDuration == [t |-> "str", v10 |-> 0]

Durations ==
    {MissingDuration, NoneDuration, IntDuration(0), IntDuration(12),
     FloatDuration(125), StrDuration}

\* int(x): truncates the fraction and yields an integer
PyInt(d) == [t |-> "int", v10 |-> (d.v10 \div 10) * 10]

\* float(x) on an int or a float: same value, floating-point type
PyFloat(d) == [t |-> "float", v10 |-> d.v10]

\* float(x) raises ValueError on a non-numeric string
FloatRaises(d) == d.t = "str"

(* ----------------------- engine records ------------------------------- *)
Urls == {Missing, None, "", "https://cdn/x.mp4"}
EntryUrls == {Missing, None, "", "https://cdn/low.mp4", "https://cdn/high.mp4"}
Titles == {Missing, None, "", "A"}
Thumbnails == {Missing, None, "https://cdn/t.jpg"}

\* an entry of info['formats']: a mapping with an optional url, or a value
\* that is not a mapping at all (malformed record)
FormatEntries ==
    [mapping : {TRUE}, url : EntryUrls] \cup {[mapping |-> FALSE, url |-> Missing]}

SeqsUpTo(S, n) == UNION {[1..k -> S] : k \in 0..n}

MissingFormats == [tag |-> "missing", items |-> <<>>]
NoneFormats == [tag |-> "none", items |-> <<>>]
FormatLists ==
    {MissingFormats, NoneFormats}
    \cup {[tag |-> "list", items |-> s] : s \in SeqsUpTo(FormatEntries, MaxFormats)}

\* a non-empty info dict returned by extract_info
Records ==
    [url : Urls, formats : FormatLists, title : Titles,
     thumbnail : Thumbnails, duration : Durations]

NoInfo ==
    [url |-> Missing, formats |-> MissingFormats, title |-> Missing,
     thumbnail |-> Missing, duration |-> MissingDuration]

\* details carried by exceptions raised inside the engine
Details == {"d1", "d2"}

\* what ydl.extract_info(request.url, download=False) does
RecordOutcome(info) == [kind |-> "record", info |-> info, detail |-> ""]
NoneOutcome == [kind |-> "none", info |-> NoInfo, detail |-> ""]
DownloadErrorOutcome(d) == [kind |-> "download_error", info |-> NoInfo, detail |-> d]
ExceptionOutcome(d) == [kind |-> "exception", info |-> NoInfo, detail |-> d]
NoOutcome == [kind |-> "pending", info |-> NoInfo, detail |-> ""]

(* ----------------------- response models ------------------------------ *)
DefaultTitle == "Sin título"

\* class VideoData
VideoData(title, thumbnail, duration, stream_url) ==
    [present |-> TRUE, title |-> title, thumbnail |-> thumbnail,
     duration |-> duration, stream_url |-> stream_url]

\* VideoResponse.data = None
NoData ==
    [present |-> FALSE, title |-> None, thumbnail |-> None,
     duration |-> NoneDuration, stream_url |-> None]

\* an Optional[str] message: None, or the pieces of the formatted string
NoMessage == [present |-> FALSE, text |-> <<>>]
FString(prefix, value) == [present |-> TRUE, text |-> <<prefix, value>>]

\* class VideoResponse
VideoResponse(status, data, message) ==
    [status |-> status, data |-> data, message |-> message]

NoBody == VideoResponse("", NoData, NoMessage)

(* ----------------------- get_ydl_opts --------------------------------- *)
get_ydl_opts ==
    [format |-> "best", quiet |-> TRUE, no_warnings |-> TRUE, simulate |-> TRUE,
     force_url |-> TRUE, noplaylist |-> TRUE, socket_timeout |-> 30,
     retries |-> 3, age_limit |-> None, geo_bypass |-> TRUE,
     nocheckcertificate |-> TRUE,
     extractor_args |-> {"youtube", "instagram", "tiktok", "twitter", "reddit"},
     http_headers |-> {"User-Agent", "Accept-Language", "Accept"}]

NoOpts ==
    [format |-> "", quiet |-> FALSE, no_warnings |-> FALSE, simulate |-> FALSE,
     force_url |-> FALSE, noplaylist |-> FALSE, socket_timeout |-> 0,
     retries |-> 0, age_limit |-> None, geo_bypass |-> FALSE,
     nocheckcertificate |-> FALSE, extractor_args |-> {}, http_headers |-> {}]

(* ----------------------- resolve_video_url ---------------------------- *)
NoInfoDetail == "No se pudo extraer información del video"
NoStreamDetail == "No se pudo obtener la URL directa del video"
DownloadErrorPrefix == "No se pudo procesar la URL: "
InternalErrorPrefix == "Error interno del servidor: "

\* str(e) of the exceptions the handler's own statements raise
LenOfNoneDetail == "object of type 'NoneType' has no len()"
NotAMappingDetail == "object has no attribute 'get'"
FloatValueDetail == "could not convert string to float"

\* the result of an expression: a value, or an exception in flight
Value(v) == [raised |-> FALSE, detail |-> "", url |-> v]
Raised(d) == [raised |-> TRUE, detail |-> d, url |-> None]

\* for fmt in fs[0..i-1]: if fmt.get('url'): stream_url = fmt['url']; break
\* (first entry with a url, scanning upwards from index j)
RECURSIVE ForwardScanFrom(_, _)
ForwardScanFrom(fs, j) ==
    IF j > Len(fs) THEN Value(None)
    ELSE IF ~fs[j].mapping THEN Raised(NotAMappingDetail)
    ELSE IF Truthy(DictGet(fs[j].url)) THEN Value(fs[j].url)
    ELSE ForwardScanFrom(fs, j + 1)

ForwardScan(fs) == ForwardScanFrom(fs, 1)

\* for fmt in reversed(fs[0..i-1]): if fmt.get('url'): stream_url = fmt['url']; break
RECURSIVE ReverseScanFrom(_, _)
ReverseScanFrom(fs, i) ==
    IF i = 0 THEN Value(None)
    ELSE IF ~fs[i].mapping THEN Raised(NotAMappingDetail)
    ELSE IF Truthy(DictGet(fs[i].url)) THEN Value(fs[i].url)
    ELSE ReverseScanFrom(fs, i - 1)

ScanFormats(fs) == ReverseScanFrom(fs, Len(fs))

\* the formats branch: 'formats' in info and len(info['formats']) > 0
FormatsBranch(info) ==
    IF info.formats.tag = "missing" THEN Value(None)
    ELSE IF info.formats.tag = "none" THEN Raised(LenOfNoneDetail)
    ELSE IF Len(info.formats.items) > 0 THEN ScanFormats(info.formats.items)
    ELSE Value(None)

\* a selection that looks at the formats first and at info['url'] last
SelectFormatsFirst(info) ==
    IF info.formats.tag = "list" /\ Len(info.formats.items) > 0
    THEN ScanFormats(info.formats.items)
    ELSE IF info.url # Missing THEN Value(info.url) ELSE Value(None)

\* stream_url selection: 'url' in info wins, else the formats branch
SelectStreamUrl(info) ==
    IF info.url # Missing THEN Value(info.url) ELSE FormatsBranch(info)

\* `if stream_url is None` in place of `if not stream_url`
IsNoneOnly(stream_url) == stream_url = None

\* `if not stream_url`
NotStreamUrl(stream_url) == ~Truthy(stream_url)

\* info.get('title', 'Sin título')
TitleOf(info) == DictGetDefault(info.title, DefaultTitle)

\* info.get('thumbnail')
ThumbnailOf(info) == DictGet(info.thumbnail)

\* info.get('duration') is not None
HasDuration(info) == info.duration.t \notin {"missing", "none"}

\* float(info['duration']) if info.get('duration') is not None else None
DurationOf(info) == IF HasDuration(info) THEN PyFloat(info.duration) ELSE NoneDuration

\* the outcome of the try body: a returned VideoResponse or a raised exception,
\* with the steps the body went through
Returned(body) ==
    [raised |-> FALSE, cls |-> "", detail |-> "", status_code |-> 0,
     value |-> body, selected |-> TRUE, built |-> TRUE]
Raise(cls, detail, status_code, selected, built) ==
    [raised |-> TRUE, cls |-> cls, detail |-> detail, status_code |-> status_code,
     value |-> NoBody, selected |-> selected, built |-> built]

\* the record part of the try body: selection, the 400, VideoData, the response
TryRecord(info) ==
    LET sel == SelectStreamUrl(info) IN
    IF sel.raised THEN Raise("Exception", sel.detail, 0, TRUE, FALSE)
    ELSE IF NotStreamUrl(sel.url)
         THEN Raise("HTTPException", NoStreamDetail, 400, TRUE, FALSE)
    ELSE IF HasDuration(info) /\ FloatRaises(info.duration)
         THEN Raise("Exception", FloatValueDetail, 0, TRUE, FALSE)
    ELSE Returned(VideoResponse("success",
                    VideoData(TitleOf(info), ThumbnailOf(info),
                              DurationOf(info), sel.url),
                    NoMessage))

\* the try body, given what extract_info did
TryBody(o) ==
    IF o.kind = "download_error"
    THEN Raise("DownloadError", o.detail, 0, FALSE, FALSE)
    ELSE IF o.kind = "exception"
    THEN Raise("Exception", o.detail, 0, FALSE, FALSE)
    ELSE IF o.kind = "none"
    THEN Raise("HTTPException", NoInfoDetail, 400, FALSE, FALSE)
    ELSE TryRecord(o.info)

\* what the transport layer sees of one call
Respond(http, body, raw) ==
    [kind |-> "response", http |-> http, body |-> body, detail |-> "",
     selected |-> raw.selected, built |-> raw.built]
HttpError(raw) ==
    [kind |-> "http_error", http |-> raw.status_code, body |-> NoBody,
     detail |-> raw.detail, selected |-> raw.selected, built |-> raw.built]
Fault(raw) ==
    [kind |-> "fault", http |-> 500, body |-> NoBody,
     detail |-> raw.detail, selected |-> raw.selected, built |-> raw.built]
NoResult ==
    [kind |-> "pending", http |-> 0, body |-> NoBody, detail |-> "",
     selected |-> FALSE, built |-> FALSE]

\* the except clauses without the final `except Exception`
ExceptNoCatchAll(raw) ==
    IF ~raw.raised THEN Respond(200, raw.value, raw)
    ELSE IF raw.cls = "DownloadError"
    THEN Respond(200, VideoResponse("error", NoData,
                        FString(DownloadErrorPrefix, raw.detail)), raw)
    ELSE IF raw.cls = "HTTPException" THEN HttpError(raw)
    ELSE Fault(raw)

\* the except clauses with DownloadError left to the last clause and a fixed text
ExceptDownloadErrorGeneric(raw) ==
    IF ~raw.raised THEN Respond(200, raw.value, raw)
    ELSE IF raw.cls = "HTTPException" THEN HttpError(raw)
    ELSE Respond(200, VideoResponse("error", NoData,
                        FString(InternalErrorPrefix, "")), raw)

\* the except clauses of resolve_video_url
ExceptClauses(raw) ==
    IF ~raw.raised THEN Respond(200, raw.value, raw)
    ELSE IF raw.cls = "DownloadError"
    THEN Respond(200, VideoResponse("error", NoData,
                        FString(DownloadErrorPrefix, raw.detail)), raw)
    ELSE IF raw.cls = "HTTPException" THEN HttpError(raw)
    ELSE Respond(200, VideoResponse("error", NoData,
                        FString(InternalErrorPrefix, raw.detail)), raw)

\* resolve_video_url from the return of extract_info to the end of the call
resolve_video_url(o) == ExceptClauses(TryBody(o))

\* a handler that calls the engine again after a DownloadError
RetryAfterDownloadError(o) == IF o.kind = "download_error" THEN "engine" ELSE "done"

\* where the handler is after extract_info came back: every branch returns or raises
AfterEngine(o) == "done"

(* ----------------------- the server ----------------------------------- *)
VARIABLES
    pc,           \* per request: "idle", "engine" (inside extract_info), "done"
    opts,         \* per request: the ydl_opts built for the call
    engineCalls,  \* per request: completed calls of extract_info
    outcome,      \* per request: what extract_info did
    result,       \* per request: what the transport layer gets
    abandoned     \* per request: the client went away during the engine call

vars == <<pc, opts, engineCalls, outcome, result, abandoned>>

Init ==
    /\ pc = [r \in Requests |-> "idle"]
    /\ opts = [r \in Requests |-> NoOpts]
    /\ engineCalls = [r \in Requests |-> 0]
    /\ outcome = [r \in Requests |-> NoOutcome]
    /\ result = [r \in Requests |-> NoResult]
    /\ abandoned = [r \in Requests |-> FALSE]

\* lines 116-123: log, build the profile, enter extract_info
Enter(r) ==
    /\ pc[r] = "idle"
    /\ pc' = [pc EXCEPT ![r] = "engine"]
    /\ opts' = [opts EXCEPT ![r] = get_ydl_opts]
    /\ UNCHANGED <<engineCalls, outcome, result, abandoned>>

\* the handler has no await: on the event loop a call runs from its first
\* statement to its return before the next request is taken
Receive(r) ==
    /\ \A q \in Requests : pc[q] = "idle"
    /\ Enter(r)

\* several calls in flight at once (more than one worker)
ReceiveConcurrent(r) == Enter(r)

\* lines 123-179: extract_info comes back with o and the handler runs to its end
Handle(r, o) ==
    /\ pc[r] = "engine"
    /\ engineCalls' = [engineCalls EXCEPT ![r] = @ + 1]
    /\ outcome' = [outcome EXCEPT ![r] = o]
    /\ pc' = [pc EXCEPT ![r] = AfterEngine(o)]
    /\ result' = [result EXCEPT ![r] =
                    IF AfterEngine(o) = "done" THEN resolve_video_url(o) ELSE NoResult]
    /\ UNCHANGED <<opts, abandoned>>

EngineReturnsRecord(r) ==
    /\ pc[r] = "engine"
    /\ \E info \in Records : Handle(r, RecordOutcome(info))
EngineReturnsNone(r) ==
    /\ pc[r] = "engine"
    /\ Handle(r, NoneOutcome)
EngineRaisesDownloadError(r) ==
    /\ pc[r] = "engine"
    /\ \E d \in Details : Handle(r, DownloadErrorOutcome(d))
EngineRaisesException(r) ==
    /\ pc[r] = "engine"
    /\ \E d \in Details : Handle(r, ExceptionOutcome(d))

\* the client disconnects while the call is inside the engine; nothing in the
\* handler observes it, the call still runs to its end
Abandon(r) ==
    /\ pc[r] = "engine"
    /\ ~abandoned[r]
    /\ abandoned' = [abandoned EXCEPT ![r] = TRUE]
    /\ UNCHANGED <<pc, opts, engineCalls, outcome, result>>

\* the response leaves the process; nothing of the call outlives it
Deliver(r) ==
    /\ pc[r] = "done"
    /\ pc' = [pc EXCEPT ![r] = "idle"]
    /\ opts' = [opts EXCEPT ![r] = NoOpts]
    /\ engineCalls' = [engineCalls EXCEPT ![r] = 0]
    /\ outcome' = [outcome EXCEPT ![r] = NoOutcome]
    /\ result' = [result EXCEPT ![r] = NoResult]
    /\ abandoned' = [abandoned EXCEPT ![r] = FALSE]

Next ==
    \E r \in Requests :
        \/ Receive(r)
        \/ EngineReturnsRecord(r)
        \/ EngineReturnsNone(r)
        \/ EngineRaisesDownloadError(r)
        \/ EngineRaisesException(r)
        \/ Abandon(r)
        \/ Deliver(r)

Spec == Init /\ [][Next]_vars

(* the same calls overlapping, over one record of each shape *)
ConcRecords ==
    [url : {Missing, "https://cdn/x.mp4"},
     formats : {MissingFormats,
                [tag |-> "list",
                 items |-> <<[mapping |-> TRUE, url |-> "https://cdn/high.mp4"]>>]},
     title : {"A"}, thumbnail : {Missing}, duration : {MissingDuration}]

ConcEngineReturnsRecord(r) ==
    /\ pc[r] = "engine"
    /\ \E info \in ConcRecords : Handle(r, RecordOutcome(info))

NextConc ==
    \E r \in Requests :
        \/ ReceiveConcurrent(r)
        \/ ConcEngineReturnsRecord(r)
        \/ EngineReturnsNone(r)
        \/ EngineRaisesDownloadError(r)
        \/ EngineRaisesException(r)
        \/ Abandon(r)
        \/ Deliver(r)

SpecConc == Init /\ [][NextConc]_vars

TypeOK ==
    /\ pc \in [Requests -> {"idle", "engine", "done"}]
    /\ engineCalls \in [Requests -> 0..1]
    /\ abandoned \in [Requests -> BOOLEAN]
    /\ \A r \in Requests : result[r].kind \in {"pending", "response", "http_error", "fault"}

(* ----------------------- properties ----------------------------------- *)
Done(r) == pc[r] = "done"
Info(r) == outcome[r].info
Body(r) == result[r].body

IsSuccess(res) ==
    res.kind = "response" /\ res.http = 200 /\ res.body.status = "success"
IsErrorEnvelope(res) ==
    res.kind = "response" /\ res.http = 200 /\ res.body.status = "error"
IsHttp400(res) == res.kind = "http_error" /\ res.http = 400

\* a non-empty string (neither a missing key, nor None, nor "")
NonEmptyString(s) == s \notin {Missing, None, ""}

\* section 3 of the specification: duration is a number or not reported
NumericOrNoDuration(info) == info.duration.t \in {"missing", "none", "int", "float"}

\* section 3 of the specification: formats is not reported, or is a sequence of mappings
FormatEntrySequence(info) ==
    \/ info.formats.tag = "missing"
    \/ /\ info.formats.tag = "list"
       /\ \A i \in 1..Len(info.formats.items) : info.formats.items[i].mapping

\* the indices of the format entries that carry a non-empty url
UrlIndices(info) ==
    {i \in 1..Len(info.formats.items) :
        info.formats.items[i].mapping /\ NonEmptyString(info.formats.items[i].url)}

MaxOf(S) == CHOOSE m \in S : \A n \in S : n <= m

Contains(message, d) == \E i \in 1..Len(message.text) : message.text[i] = d

\* C1: for every record (duration a number or not reported) whose top-level
\* url is a non-empty string, the call returns the success envelope and
\* data.stream_url is that url, whatever info['formats'] holds.
C1_TopLevelUrlWins ==
    \A r \in Requests :
        (Done(r) /\ outcome[r].kind = "record" /\ NonEmptyString(Info(r).url)
                 /\ NumericOrNoDuration(Info(r)))
        => /\ IsSuccess(result[r])
           /\ Body(r).data.present
           /\ Body(r).data.stream_url = Info(r).url

C1_Witness ==
    \E r \in Requests :
        /\ Done(r) /\ outcome[r].kind = "record"
        /\ NonEmptyString(Info(r).url)
        /\ Info(r).formats.tag = "list"
        /\ Len(Info(r).formats.items) = 2
        /\ ~Info(r).formats.items[2].mapping
        /\ NonEmptyString(Info(r).formats.items[1].url)
        /\ IsSuccess(result[r])
        /\ Body(r).data.stream_url = Info(r).url

\* C2: for every record with no top-level url whose formats is not reported
\* or is a sequence of format entries, the call selects the url of the
\* highest-index entry with a non-empty url, and when there is none it ends
\* as the HTTP 400 "no stream url" with no success envelope.
C2_LastFormatWithUrl ==
    \A r \in Requests :
        (Done(r) /\ outcome[r].kind = "record" /\ Info(r).url = Missing
                 /\ FormatEntrySequence(Info(r)) /\ NumericOrNoDuration(Info(r)))
        => IF UrlIndices(Info(r)) = {}
           THEN /\ IsHttp400(result[r])
                /\ result[r].detail = NoStreamDetail
                /\ ~Body(r).data.present
                /\ ~result[r].built
           ELSE /\ IsSuccess(result[r])
                /\ Body(r).data.stream_url =
                       Info(r).formats.items[MaxOf(UrlIndices(Info(r)))].url

C2_Witness ==
    \E r \in Requests :
        /\ Done(r) /\ outcome[r].kind = "record" /\ Info(r).url = Missing
        /\ Info(r).formats.tag = "list"
        /\ Len(Info(r).formats.items) = 2
        /\ Info(r).formats.items[1].url = "https://cdn/low.mp4"
        /\ Info(r).formats.items[2].url = "https://cdn/high.mp4"
        /\ IsSuccess(result[r])
        /\ Body(r).data.stream_url = "https://cdn/high.mp4"

\* C3: for every record whose top-level url is present but None or "", and
\* whose formats holds an entry with a non-empty url, the call returns
\* success with the url of the last such entry.
C3_EmptyUrlFallsBackToFormats ==
    \A r \in Requests :
        (Done(r) /\ outcome[r].kind = "record" /\ Info(r).url \in {None, ""}
                 /\ FormatEntrySequence(Info(r)) /\ NumericOrNoDuration(Info(r))
                 /\ UrlIndices(Info(r)) # {})
        => /\ IsSuccess(result[r])
           /\ Body(r).data.stream_url =
                  Info(r).formats.items[MaxOf(UrlIndices(Info(r)))].url

C5_DownloadErrorEnvelope ==
    \A r \in Requests :
        (Done(r) /\ outcome[r].kind = "download_error")
        => /\ IsErrorEnvelope(result[r])
           /\ Body(r).message.present
           /\ Contains(Body(r).message, outcome[r].detail)
           /\ ~Body(r).data.present
           /\ ~result[r].selected
           /\ ~result[r].built

C5_Witness ==
    \E r \in Requests :
        /\ Done(r) /\ outcome[r].kind = "download_error"
        /\ outcome[r].detail = "d2"
        /\ Body(r).message.text = <<DownloadErrorPrefix, "d2">>

\* the exception the last except clause handles, if the call raised one
Unexpected(r) ==
    /\ Done(r)
    /\ TryBody(outcome[r]).raised
    /\ TryBody(outcome[r]).cls = "Exception"

\* C6: the message of an unexpected failure is a fixed text: it does not
\* contain the exception's detail, and two unexpected failures with
\* different details carry the same message.
C6_GenericInternalMessage ==
    \A r, q \in Requests :
        (Unexpected(r) /\ Unexpected(q))
        => /\ ~Contains(Body(r).message, TryBody(outcome[r]).detail)
           /\ Body(r).message = Body(q).message

\* C7: a returned VideoResponse has status success or error; success goes
\* with data and no message, error with a message and no data; data always
\* carries a non-empty stream_url, and no VideoData is built without one.
C7_EnvelopeShape ==
    \A r \in Requests :
        Done(r)
        => /\ result[r].kind = "response"
                => /\ Body(r).status \in {"success", "error"}
                   /\ Body(r).status = "success"
                          <=> (Body(r).data.present /\ ~Body(r).message.present)
                   /\ Body(r).status = "error"
                          <=> (Body(r).message.present /\ ~Body(r).data.present)
           /\ Body(r).data.present => NonEmptyString(Body(r).data.stream_url)
           /\ result[r].built => Body(r).data.present
           /\ outcome[r].kind = "none" => ~result[r].built

C7_Witness ==
    \E r \in Requests :
        /\ Done(r) /\ IsSuccess(result[r])
        /\ Body(r).data.present
        /\ Info(r).url = Missing
        /\ NonEmptyString(Body(r).data.stream_url)

\* C8: in a success response data.title is the engine's title when it
\* supplies one, and the default literal exactly when it supplies none
\* (key missing or None); never None and never "" for an unset title.
C8_TitleDefault ==
    \A r \in Requests :
        (Done(r) /\ IsSuccess(result[r]))
        => /\ Info(r).title \notin {Missing, None}
                  => Body(r).data.title = Info(r).title
           /\ Info(r).title \in {Missing, None}
                  => Body(r).data.title = DefaultTitle
           /\ Body(r).data.title # None

\* C9: in a success response data.duration is absent exactly when the
\* record reports none (key missing or None), and otherwise is the engine's
\* value as a float with the value unchanged (0 stays present as 0.0).
C9_DurationFloat ==
    \A r \in Requests :
        (Done(r) /\ IsSuccess(result[r]))
        => /\ Body(r).data.duration = NoneDuration
                  <=> Info(r).duration.t \in {"missing", "none"}
           /\ Info(r).duration.t \in {"int", "float"}
                  => /\ Body(r).data.duration.t = "float"
                     /\ Body(r).data.duration.v10 = Info(r).duration.v10

C9_Witness ==
    \E r \in Requests :
        /\ Done(r) /\ IsSuccess(result[r])
        /\ Info(r).duration = IntDuration(0)
        /\ Body(r).data.duration = FloatDuration(0)

\* C10: with calls overlapping in any order, every call uses the same
\* profile, invokes the engine once and only once, and its result is
\* determined by its own engine outcome, abandoned or not.
C10_IndependentCalls ==
    \A r, q \in Requests :
        /\ engineCalls[r] <= 1
        /\ pc[r] # "idle" => opts[r] = get_ydl_opts
        /\ (pc[r] # "idle" /\ pc[q] # "idle") => opts[r] = opts[q]
        /\ pc[r] = "engine" => engineCalls[r] = 0
        /\ Done(r) => engineCalls[r] = 1
        /\ (Done(r) /\ Done(q) /\ outcome[r] = outcome[q]) => result[r] = result[q]
        /\ (Done(r) /\ Done(q) /\ result[r] # result[q]) => outcome[r] # outcome[q]

C10_Witness ==
    \E r, q \in Requests :
        /\ r # q /\ Done(r) /\ Done(q)
        /\ abandoned[r] /\ ~abandoned[q]
        /\ outcome[r].kind = "download_error"
        /\ outcome[q].kind = "record"
        /\ IsSuccess(result[q]) /\ IsErrorEnvelope(result[r])
        /\ engineCalls[r] = 1 /\ engineCalls[q] = 1

====
